---------------------------- MODULE Spec2Model ----------------------------
(***************************************************************************)
(* State-machine model of djangosaml2/views.py: the four SAML endpoints    *)
(* (login, assertion_consumer_service, logout, logout_service) acting on   *)
(* one browser session.  A step of the model is one complete HTTP request  *)
(* on that session: the view runs from its first line to the response.     *)
(*                                                                         *)
(* The session holds what the views read and write:                        *)
(*   user          the principal django.contrib.auth keeps in the session  *)
(*   subjectID     session['_saml2_subject_id']                            *)
(*   oq            the OutstandingQueriesCache map (request id -> url)     *)
(*   identityCache the IdentityCache the pysaml2 client writes             *)
(*   protocolState the StateCache blob, as last synced                     *)
(*                                                                         *)
(* pysaml2 (Saml2Client), the authentication backend and the signal        *)
(* subscribers are external: every result they can hand back to a view is  *)
(* an input of the request, chosen freely.                                 *)
(***************************************************************************)
EXTENDS Naturals, Sequences, FiniteSets, TLC

\* ------------------------------------------------------------------ bounds
\* Number of AuthnRequests the engine issues in one run (ids 1..MaxIds).
MaxIds == 2
\* Largest number of IdPs a configuration declares (conf.idps()).
MaxIdps == 2

\* ------------------------------------------------------------- value sets
None == "None"
Anon == "AnonymousUser"
Users == {"u1", "u2"}
NameIds == {"n1", "n2"}
\* id 0 is an identifier this SP never issued (an unsolicited response)
RequestIds == 0..MaxIds
\* the opaque protocol-state blob: empty, or what the engine last reported
EmptyBlob == "empty"
Blobs == {"s1", "s2"}
LOGIN_REDIRECT_URL == "/accounts/profile/"
Urls == {"/dashboard", LOGIN_REDIRECT_URL}
IdpLocation == "https://idp/sso"
IdpSloLocation == "https://idp/slo"

VARIABLES
    session,   \* the browser session, as left by the last request
    issued,    \* how many request ids the engine has issued so far
    last,      \* the request just handled: [op, inp, resp]; Idle between requests
    pre,       \* the session as that request found it
    call,      \* the configuration one assertion-consumer call resolves
    consumed,  \* per request id, the authentications it has led to (when counted)
    tabs       \* two requests of the same browser session that overlap

\* What the requests on the session leave alone.
aux == <<call, consumed, tabs>>

vars == <<session, issued, last, pre, call, consumed, tabs>>

EmptyOq == [i \in {} |-> None]

\* A session with nothing in it: what the session layer creates lazily, and
\* what SessionBase.flush() leaves.
EmptySession ==
    [user |-> Anon, subjectID |-> None, oq |-> EmptyOq,
     identityCache |-> {}, protocolState |-> EmptyBlob]

\* A response: what the view returned, and the state-changing or outward
\* calls it made on the way, in program order.
Response(outcome, status, location, events) ==
    [outcome |-> outcome, status |-> status, location |-> location,
     events |-> events]

\* An uncaught exception (AssertionError, KeyError, TypeError): Django
\* answers 500.  What the view wrote before raising stays written.
Fatal(events) == Response("fatal", 500, None, events)

\* What a view hands back to the model: the session it leaves, the response.
Result(s, resp) == [session |-> s, resp |-> resp]

\* ------------------------------------------------------ session helpers
\* OutstandingQueriesCache.set(saml2_session_id, came_from)
OqSet(oq, id, url) ==
    [i \in (DOMAIN oq) \cup {id} |-> IF i = id THEN url ELSE oq[i]]

\* OutstandingQueriesCache.delete(saml2_session_id): no-op when absent
OqDelete(oq, id) ==
    [i \in (DOMAIN oq) \ {id} |-> oq[i]]

\* views.py _set_subject_id
set_subject_id(s, subject_id) ==
    [s EXCEPT !.subjectID = subject_id]

\* django.contrib.auth.login(request, user): a session that belongs to
\* another authenticated user is flushed, then the user is stored.
auth_login(s, user) ==
    LET base == IF s.user # Anon /\ s.user # user THEN EmptySession ELSE s
    IN  [base EXCEPT !.user = user]

\* django.contrib.auth.logout(request): request.session.flush()
auth_logout(s) == EmptySession

\* StateCache.sync(): the blob the engine left in the cache object is
\* written to the session.
StateSync(s, blob) ==
    [s EXCEPT !.protocolState = blob]

\* ------------------------------------------------------------------ login
\* Inputs of a login request: the GET parameters `next` and `idp`, the
\* number of IdPs of the loaded configuration, and what
\* client.authenticate() does: it returns (session_id, ('Location', url)),
\* raises TypeError, or returns a result the asserts of lines 103-104 reject.
NextParams == {None, "/dashboard"}
IdpParams == {None, "idp1"}
LoginDefaults ==
    [next |-> None, idp |-> None, idps |-> 1, engine |-> "ok"]
LoginInputs ==
    {[LoginDefaults EXCEPT !.next = x, !.idps = k] :
        x \in NextParams, k \in 2..MaxIdps}
    \cup {[LoginDefaults EXCEPT !.next = x, !.engine = e] :
            x \in NextParams, e \in {"ok", "TypeError", "malformed"}}
    \cup {[next |-> x, idp |-> d, idps |-> k, engine |-> e] :
            x \in NextParams, d \in IdpParams \ {None}, k \in 1..MaxIdps,
            e \in {"ok", "TypeError", "malformed"}}

\* line 73: request.GET.get('next', settings.LOGIN_REDIRECT_URL)
came_from(next) ==
    IF next = None THEN LOGIN_REDIRECT_URL ELSE next

\* Mutant of wayf_needed: the discovery page only from the third IdP on.
wayf_needed_off_by_one(selected_idp, n) ==
    selected_idp = None /\ n > 2

\* line 86: is an embedded wayf needed?
wayf_needed(selected_idp, n) ==
    selected_idp = None /\ n > 1

\* Mutant of login_redirect: the new query replaces the map instead of
\* being added to it.
login_redirect_overwrites(s, session_id, came, location) ==
    Result([s EXCEPT !.oq = OqSet(EmptyOq, session_id, came)],
           Response("redirect", 302, location,
                    <<"authenticate", "oq_set", "redirect">>))

\* Mutant of login_redirect: the redirect is returned, the query not saved.
login_redirect_unsaved(s, session_id, came, location) ==
    Result(s, Response("redirect", 302, location,
                       <<"authenticate", "redirect">>))

\* lines 105-112: the outstanding query is saved, then the redirect returned
login_redirect(s, session_id, came, location) ==
    Result([s EXCEPT !.oq = OqSet(s.oq, session_id, came)],
           Response("redirect", 302, location,
                    <<"authenticate", "oq_set", "redirect">>))

\* lines 61-112.  n is the number of ids the engine issued before.
login(s, inp, n) ==
    IF s.user # Anon
    THEN Result(s, Response("already_authenticated", 200, None, <<>>))
    ELSE IF wayf_needed(inp.idp, inp.idps)
    THEN Result(s, Response("wayf", 200, None, <<>>))
    ELSE IF inp.engine = "TypeError"
    THEN Result(s, Response("configuration_error", 200, None,
                            <<"authenticate">>))
    ELSE IF inp.engine = "malformed"
    THEN Result(s, Fatal(<<"authenticate">>))
    ELSE login_redirect(s, n + 1, came_from(inp.next), IdpLocation)

\* The id the engine issued in this request, if it issued one.
IssuedBy(resp, n) ==
    IF resp.outcome = "redirect" THEN n + 1 ELSE n

Login ==
    \E inp \in LoginInputs :
        LET r == login(session, inp, issued)
        IN  /\ last.op = "idle"
            /\ IssuedBy(r.resp, issued) <= MaxIds
            /\ session' = r.session
            /\ issued' = IssuedBy(r.resp, issued)
            /\ last' = [op |-> "login", inp |-> inp, resp |-> r.resp]
            /\ pre' = session
            /\ UNCHANGED aux

\* ------------------------------------------- assertion_consumer_service
\* Inputs of a POST to the assertion consumer: whether the body carries
\* SAMLResponse, its RelayState, what client.response() returns (None, or a
\* validated response with its session_id() and the name_id of its
\* session_info()), the user auth.authenticate() resolves (None when it
\* resolves nobody), and whether a post_authenticated subscriber raises.
RelayParams == {None, "/dashboard"}
AcsDefaults ==
    [has_response |-> FALSE, relay |-> None, valid |-> FALSE,
     session_id |-> 0, name_id |-> None, user |-> None,
     subscriber_fails |-> FALSE]
AcsInputs ==
    {AcsDefaults}
    \cup {[AcsDefaults EXCEPT !.has_response = TRUE]}
    \cup {[AcsDefaults EXCEPT !.has_response = TRUE, !.valid = TRUE,
              !.session_id = i, !.name_id = n] :
            i \in RequestIds, n \in NameIds}
    \cup {[has_response |-> TRUE, relay |-> r, valid |-> TRUE,
           session_id |-> i, name_id |-> n, user |-> u,
           subscriber_fails |-> f] :
            r \in RelayParams, i \in RequestIds, n \in NameIds,
            u \in Users, f \in BOOLEAN}

\* Mutant of no_saml_response: the POST body is never checked.
no_saml_response_unchecked(inp) == FALSE

\* line 136: 'SAMLResponse' not in request.POST
no_saml_response(inp) == ~inp.has_response

\* Mutant of response_is_none: the engine's verdict is never checked.
response_is_none_unchecked(inp) == FALSE

\* line 148: response is None
response_is_none(inp) == ~inp.valid

\* Mutant of user_is_none: the backend's verdict is never checked.
user_is_none_unchecked(user) == FALSE

\* line 168: user is None
user_is_none(user) == user = None

\* lines 140-147: the client is built on IdentityCache(request.session), so
\* a response the engine accepts is recorded in the identity cache.
client_response(s, inp) ==
    IF inp.valid
    THEN [s EXCEPT !.identityCache = @ \cup {inp.name_id}]
    ELSE s

\* Mutant of acs_consume: every outstanding query is dropped.
acs_consume_all(s, session_id) ==
    [s EXCEPT !.oq = EmptyOq]

\* lines 153-154: the outstanding query of the response is dropped
acs_consume(s, session_id) ==
    [s EXCEPT !.oq = OqDelete(s.oq, session_id)]

\* Mutant of acs_login: the user is logged in, the subject id not stored.
acs_login_without_subject(s, user, name_id) ==
    auth_login(s, user)

\* lines 173-174: the local session is established, the subject id stored
acs_login(s, user, name_id) ==
    set_subject_id(auth_login(s, user), name_id)

\* Mutant of send_robust: send(), which lets a subscriber's exception out.
send_plain(resp, subscriber_fails) ==
    IF subscriber_fails THEN Fatal(resp.events) ELSE resp

\* line 177: send_robust catches what a subscriber raises
send_robust(resp, subscriber_fails) == resp

\* line 180: request.POST.get('RelayState', '/')
relay_state(relay) ==
    IF relay = None THEN "/" ELSE relay

\* lines 117-182
assertion_consumer_service(s, inp) ==
    IF no_saml_response(inp)
    THEN Result(s, Response("bad_request", 400, None, <<>>))
    ELSE LET s1 == client_response(s, inp) IN
    IF response_is_none(inp)
    THEN Result(s1, Response("bad_request", 400, None, <<"response">>))
    ELSE LET s2 == acs_consume(s1, inp.session_id) IN
    IF user_is_none(inp.user)
    THEN Result(s2, Response("auth_failed", 200, None,
                             <<"response", "oq_delete", "authenticate">>))
    ELSE Result(acs_login(s2, inp.user, inp.name_id),
                send_robust(
                    Response("redirect", 302, relay_state(inp.relay),
                             <<"response", "oq_delete", "authenticate",
                               "auth_login", "set_subject_id",
                               "post_authenticated", "redirect">>),
                    inp.subscriber_fails))

\* One POST to the assertion consumer, with the inputs inp.
AcsRequest(inp) ==
    LET r == assertion_consumer_service(session, inp)
    IN  /\ last.op = "idle"
        /\ session' = r.session
        /\ last' = [op |-> "acs", inp |-> inp, resp |-> r.resp]
        /\ pre' = session
        /\ UNCHANGED issued

AssertionConsumer ==
    \E inp \in AcsInputs :
        /\ AcsRequest(inp)
        /\ UNCHANGED aux

\* The same request, observed: each authentication is counted under the
\* id of the response that led to it (the count stops at MaxCount).
MaxCount == 2
NotConsumed == [i \in RequestIds |-> 0]
Counted(c, resp, id) ==
    IF resp.outcome = "redirect" /\ c[id] < MaxCount
    THEN [c EXCEPT ![id] = @ + 1]
    ELSE c

AssertionConsumerCounted ==
    \E inp \in AcsInputs :
        /\ AcsRequest(inp)
        /\ consumed' =
              Counted(consumed,
                      assertion_consumer_service(session, inp).resp,
                      inp.session_id)
        /\ UNCHANGED <<call, tabs>>

\* ----------------------------------------------------------------- logout
\* Inputs of a logout request: the blob client.global_logout() leaves in
\* the state cache, and whether the header pairs it returns hold Location.
LOGIN_URL == "/accounts/login/"
LogoutInputs == [blob : Blobs, has_location : BOOLEAN]

\* Mutant of logout_redirect: the redirect is returned, the state not synced.
logout_redirect_unsynced(s, inp) ==
    IF inp.has_location
    THEN Result(s, Response("redirect", 302, IdpSloLocation,
                            <<"global_logout", "redirect">>))
    ELSE Result(s, Fatal(<<"global_logout">>))

\* lines 219-222: state.sync(), then the redirect to headers['Location']
logout_redirect(s, inp) ==
    IF inp.has_location
    THEN Result(StateSync(s, inp.blob),
                Response("redirect", 302, IdpSloLocation,
                         <<"global_logout", "state_sync", "redirect">>))
    ELSE Result(StateSync(s, inp.blob),
                Fatal(<<"global_logout", "state_sync">>))

\* lines 203-222.  login_required sends an anonymous caller to LOGIN_URL;
\* _get_subject_id raises KeyError when the session has no subject id.
logout(s, inp) ==
    IF s.user = Anon
    THEN Result(s, Response("login_required", 302, LOGIN_URL, <<>>))
    ELSE IF s.subjectID = None
    THEN Result(s, Fatal(<<>>))
    ELSE logout_redirect(s, inp)

LogoutInitiator ==
    \E inp \in LogoutInputs :
        LET r == logout(session, inp)
        IN  /\ last.op = "idle"
            /\ session' = r.session
            /\ last' = [op |-> "logout", inp |-> inp, resp |-> r.resp]
            /\ pre' = session
            /\ UNCHANGED aux
            /\ UNCHANGED issued

\* --------------------------------------------------------- logout_service
\* Inputs of a request to the logout service: which of SAMLResponse and
\* SAMLRequest the query string carries, the view's next_page argument,
\* the blob the engine leaves in the state cache, and the engine's answer:
\* for client.logout_response() None, or a response whose status is
\* '200 Ok' or something else; for client.logout_request() the pair
\* (response, success), response being None, a header list that starts with
\* Location, or one that does not.
NextPages == {None, "/logged-out/"}
Statuses == {None, "200 Ok", "400 Bad Request"}
LogoutResponses == {None, "location", "malformed"}
LsDefaults ==
    [has_response |-> FALSE, has_request |-> FALSE, next_page |-> None,
     status |-> None, response |-> None, success |-> FALSE,
     blob |-> EmptyBlob]
LsInputs ==
    {LsDefaults}
    \cup {[LsDefaults EXCEPT !.has_response = TRUE, !.has_request = q,
              !.status = st, !.blob = b] :
            q \in BOOLEAN, st \in Statuses \ {"200 Ok"}, b \in Blobs}
    \cup {[LsDefaults EXCEPT !.has_response = TRUE, !.has_request = q,
              !.next_page = p, !.status = "200 Ok", !.blob = b] :
            q \in BOOLEAN, p \in NextPages, b \in Blobs}
    \cup {[LsDefaults EXCEPT !.has_request = TRUE, !.response = rs,
              !.success = ok, !.blob = b] :
            rs \in LogoutResponses, ok \in BOOLEAN, b \in Blobs}

\* line 249: django.contrib.auth.views.logout(request, next_page): the
\* session is flushed; the answer is a redirect to next_page, or the
\* logged-out page when no next_page was given.
django_logout(s, next_page) ==
    IF next_page = None
    THEN Result(auth_logout(s),
                Response("logged_out", 200, None,
                         <<"logout_response", "state_sync", "auth_logout">>))
    ELSE Result(auth_logout(s),
                Response("redirect", 302, next_page,
                         <<"logout_response", "state_sync", "auth_logout",
                           "redirect">>))

\* Mutant of logout_service_response: the local logout is done before the
\* engine's status is looked at.
logout_service_response_eager(s, inp) ==
    LET s1 == StateSync(auth_logout(s), inp.blob) IN
    IF inp.status = "200 Ok"
    THEN django_logout(s1, inp.next_page)
    ELSE Result(s1, Response("logout_error", 200, None,
                             <<"logout_response", "state_sync">>))

\* Mutant of logout_service_response: any response of the engine counts as
\* a success, whatever its status.
logout_service_response_any_status(s, inp) ==
    LET s1 == StateSync(s, inp.blob) IN
    IF inp.status # None
    THEN django_logout(s1, inp.next_page)
    ELSE Result(s1, Response("logout_error", 200, None,
                             <<"logout_response", "state_sync">>))

\* lines 243-252: we started the logout
logout_service_response(s, inp) ==
    LET s1 == StateSync(s, inp.blob) IN
    IF inp.status = "200 Ok"
    THEN django_logout(s1, inp.next_page)
    ELSE Result(s1, Response("logout_error", 200, None,
                             <<"logout_response", "state_sync">>))

\* lines 261-263 and 265-267: assert response[0][0] == 'Location', redirect
location_redirect(s, response, events) ==
    IF response = "location"
    THEN Result(s, Response("redirect", 302, IdpSloLocation,
                            Append(events, "redirect")))
    ELSE Result(s, Fatal(events))

\* Mutant of logout_service_request: the soft failure logs out as well.
logout_service_request_soft_clears(s, inp) ==
    IF s.subjectID = None
    THEN Result(s, Fatal(<<>>))
    ELSE LET s1 == StateSync(s, inp.blob) IN
    IF inp.success \/ inp.response # None
    THEN location_redirect(auth_logout(s1), inp.response,
                           <<"logout_request", "state_sync", "auth_logout">>)
    ELSE Result(s1, Response("logout_error", 200, None,
                             <<"logout_request", "state_sync">>))

\* Mutant of logout_service_request: state.sync() is left out.
logout_service_request_unsynced(s, inp) ==
    IF s.subjectID = None
    THEN Result(s, Fatal(<<>>))
    ELSE IF inp.success
    THEN location_redirect(auth_logout(s), inp.response,
                           <<"logout_request", "auth_logout">>)
    ELSE IF inp.response # None
    THEN location_redirect(s, inp.response, <<"logout_request">>)
    ELSE Result(s, Response("logout_error", 200, None,
                            <<"logout_request">>))

\* lines 254-270: logout started by the IdP
logout_service_request(s, inp) ==
    IF s.subjectID = None
    THEN Result(s, Fatal(<<>>))
    ELSE LET s1 == StateSync(s, inp.blob) IN
    IF inp.success
    THEN location_redirect(auth_logout(s1), inp.response,
                           <<"logout_request", "state_sync", "auth_logout">>)
    ELSE IF inp.response # None
    THEN location_redirect(s1, inp.response,
                           <<"logout_request", "state_sync">>)
    ELSE Result(s1, Response("logout_error", 200, None,
                             <<"logout_request", "state_sync">>))

\* Mutant of logout_service: a request without SAMLResponse is taken for
\* a logout request, whether it carries SAMLRequest or not.
logout_service_without_404(s, inp) ==
    IF inp.has_response
    THEN logout_service_response(s, inp)
    ELSE logout_service_request(s, inp)

\* lines 225-273
logout_service(s, inp) ==
    IF inp.has_response
    THEN logout_service_response(s, inp)
    ELSE IF inp.has_request
    THEN logout_service_request(s, inp)
    ELSE Result(s, Response("not_found", 404, None, <<>>))

LogoutResponder ==
    \E inp \in LsInputs :
        LET r == logout_service(session, inp)
        IN  /\ last.op = "idle"
            /\ session' = r.session
            /\ last' = [op |-> "logout_service", inp |-> inp, resp |-> r.resp]
            /\ pre' = session
            /\ UNCHANGED aux
            /\ UNCHANGED issued

\* --------------------------- assertion_consumer_service: configuration
\* The view's keyword arguments attribute_mapping and create_unknown_user
\* and the settings SAML_ATTRIBUTE_MAPPING and SAML_CREATE_UNKNOWN_USER.
\* A value is absent (argument not given or None, setting not set), a
\* static value, or a callable with the value it returns.  An attribute
\* mapping is a set of (attribute, field) pairs.
Static(v) == [kind |-> "static", value |-> v]
Callable(v) == [kind |-> "callable", value |-> v]
Absent(v) == [kind |-> "none", value |-> v]
IsNone(v) == v.kind = "none"
DefaultMapping == {<<"uid", "username">>}
Mappings == {{}, DefaultMapping, {<<"mail", "email">>}}
MappingValues ==
    {Absent({})} \cup {Static(m) : m \in Mappings}
        \cup {Callable(m) : m \in Mappings}
FlagValues ==
    {Absent(FALSE)} \cup {Static(b) : b \in BOOLEAN}
        \cup {Callable(b) : b \in BOOLEAN}

\* utils.get_custom_setting(name, default): the setting, or the default
\* when the setting is not set
get_custom_setting(setting, default) ==
    IF IsNone(setting) THEN Static(default) ELSE setting

\* Python truth of a mapping argument: None and {} are false, a callable
\* is true
mapping_is_true(v) ==
    ~IsNone(v) /\ (v.kind = "callable" \/ v.value # {})

\* Python truth of a flag argument: None and False are false, a callable
\* is true
flag_is_true(v) ==
    ~IsNone(v) /\ (v.kind = "callable" \/ v.value)

\* lines 129-130: attribute_mapping or get_custom_setting(...)
attribute_mapping_or_setting(arg, setting) ==
    IF mapping_is_true(arg)
    THEN arg
    ELSE get_custom_setting(setting, DefaultMapping)

\* lines 131-132: create_unknown_user or get_custom_setting(...)
create_unknown_user_or_setting(arg, setting) ==
    IF flag_is_true(arg)
    THEN arg
    ELSE get_custom_setting(setting, TRUE)

\* lines 159-162: a callable is called, once, and its result used
call_if_callable(v) ==
    [value |-> v.value, calls |-> IF v.kind = "callable" THEN 1 ELSE 0]

\* lines 129-132 and 159-167: what auth.authenticate() is given
authenticate_arguments(c) ==
    [attribute_mapping |->
        call_if_callable(
            attribute_mapping_or_setting(c.attribute_mapping,
                                         c.SAML_ATTRIBUTE_MAPPING)),
     create_unknown_user |->
        call_if_callable(
            create_unknown_user_or_setting(c.create_unknown_user,
                                           c.SAML_CREATE_UNKNOWN_USER))]

\* One call of the view, as far as its configuration goes: what it was
\* given, and what it passed to the backend once it got there.
NoPassed == <<>>
CallInputs ==
    [attribute_mapping : MappingValues, create_unknown_user : FlagValues,
     SAML_ATTRIBUTE_MAPPING : MappingValues,
     SAML_CREATE_UNKNOWN_USER : FlagValues]
NoCall ==
    [given |-> [attribute_mapping |-> Absent({}),
                create_unknown_user |-> Absent(FALSE),
                SAML_ATTRIBUTE_MAPPING |-> Absent({}),
                SAML_CREATE_UNKNOWN_USER |-> Absent(FALSE)],
     passed |-> NoPassed]

\* The view reaches auth.authenticate() (line 165) with the resolved values.
Authenticate ==
    /\ call.passed = NoPassed
    /\ call' = [call EXCEPT !.passed = <<authenticate_arguments(call.given)>>]
    /\ UNCHANGED <<session, issued, last, pre, consumed, tabs>>

\* ------------------------------------------- two overlapping requests
\* A request works on the copy of the session it read when it first
\* touched request.session, and the session layer writes that copy back,
\* whole, when the response leaves, if the request modified it.  Two tabs
\* of one browser each send one request (login or a POST to the assertion
\* consumer); their reads and write-backs interleave freely.
Tabs == {"a", "b"}
IdleTab ==
    [pc |-> "idle", op |-> "none", inp |-> LoginDefaults,
     resp |-> Response("none", 0, None, <<>>), local |-> EmptySession,
     sid |-> 0, stale |-> FALSE]
NoTabs == [t \in Tabs |-> IdleTab]

\* A session after one Login: one outstanding query.
OneQuery == [EmptySession EXCEPT !.oq = OqSet(EmptyOq, 1, "/dashboard")]

\* lines 109 and 154, 173-174: the calls that write request.session
\* (oq_cache.set; a validated response, recorded in the identity cache
\* before oq_cache.delete; auth.login and _set_subject_id after it)
session_modified(resp) ==
    \E k \in 1..Len(resp.events) : resp.events[k] \in {"oq_set", "oq_delete"}

\* The write-back at the end of a request: the request's copy replaces the
\* stored session when the request modified it.
saved(store, local, resp) ==
    IF session_modified(resp) THEN local ELSE store

\* Tab t reads the session and runs login on its copy.
TabLogin(t) ==
    \E inp \in LoginInputs :
        LET r == login(session, inp, issued)
        IN  /\ tabs[t].pc = "idle"
            /\ IssuedBy(r.resp, issued) <= MaxIds
            /\ issued' = IssuedBy(r.resp, issued)
            /\ tabs' = [tabs EXCEPT ![t] =
                  [pc |-> "handled", op |-> "login", inp |-> inp,
                   resp |-> r.resp, local |-> r.session,
                   sid |-> IF r.resp.outcome = "redirect"
                           THEN issued + 1 ELSE 0,
                   stale |-> FALSE]]
            /\ UNCHANGED <<session, last, pre, call, consumed>>

\* Tab t reads the session and runs assertion_consumer_service on its copy.
TabAcs(t) ==
    \E inp \in AcsInputs :
        LET r == assertion_consumer_service(session, inp)
        IN  /\ tabs[t].pc = "idle"
            /\ tabs' = [tabs EXCEPT ![t] =
                  [pc |-> "handled", op |-> "acs", inp |-> inp,
                   resp |-> r.resp, local |-> r.session, sid |-> 0,
                   stale |-> FALSE]]
            /\ UNCHANGED <<session, issued, last, pre, call, consumed>>

\* The response of tab t leaves: its copy of the session is written back.
\* A tab that read the session earlier and has not written back yet now
\* holds a stale copy.
TabSave(t) ==
    /\ tabs[t].pc = "handled"
    /\ session' = saved(session, tabs[t].local, tabs[t].resp)
    /\ tabs' = [u \in Tabs |->
          IF u = t THEN [tabs[u] EXCEPT !.pc = "done"]
          ELSE IF tabs[u].pc = "handled" /\ session_modified(tabs[t].resp)
          THEN [tabs[u] EXCEPT !.stale = TRUE]
          ELSE tabs[u]]
    /\ UNCHANGED <<issued, last, pre, call, consumed>>

\* ---------------------------------------------------------- specification
\* No request is in hand: the last response has been sent.
Idle == [op |-> "idle", inp |-> None, resp |-> Response("none", 0, None, <<>>)]

\* The response of the last request is delivered; the session waits for the
\* browser's next request.
Deliver ==
    /\ last.op # "idle"
    /\ last' = Idle
    /\ pre' = session
    /\ UNCHANGED <<session, issued>>
    /\ UNCHANGED aux

Init ==
    /\ session = EmptySession
    /\ issued = 0
    /\ last = Idle
    /\ pre = EmptySession
    /\ call = NoCall
    /\ consumed = NotConsumed
    /\ tabs = NoTabs

Next ==
    \/ Login
    \/ AssertionConsumer
    \/ LogoutInitiator
    \/ LogoutResponder
    \/ Deliver

Spec == Init /\ [][Next]_vars

\* The four endpoints, with the authentications counted per request id.
NextCounted ==
    \/ Login
    \/ AssertionConsumerCounted
    \/ LogoutInitiator
    \/ LogoutResponder
    \/ Deliver

SpecCounted == Init /\ [][NextCounted]_vars

\* The configuration of one assertion-consumer call, over every combination
\* of keyword arguments and settings.
InitConfig ==
    /\ session = EmptySession
    /\ issued = 0
    /\ last = Idle
    /\ pre = EmptySession
    /\ call \in {[given |-> g, passed |-> NoPassed] : g \in CallInputs}
    /\ consumed = NotConsumed
    /\ tabs = NoTabs

NextConfig == Authenticate

SpecConfig == InitConfig /\ [][NextConfig]_vars

\* Two overlapping requests on one session.
InitTabs ==
    /\ \/ session = EmptySession /\ issued = 0
       \/ session = OneQuery /\ issued = 1
    /\ last = Idle
    /\ pre = EmptySession
    /\ call = NoCall
    /\ consumed = NotConsumed
    /\ tabs = NoTabs

NextTabs ==
    \E t \in Tabs :
        \/ TabLogin(t)
        \/ TabAcs(t)
        \/ TabSave(t)

SpecTabs == InitTabs /\ [][NextTabs]_vars

\* ------------------------------------------------------------ properties
\* What the claims are stated over: the request just handled (last), the
\* session it found (pre) and the session it left (session).
Events == last.resp.events
Called(e) == \E k \in 1..Len(Events) : Events[k] = e
Before(e, f) ==
    \E j, k \in 1..Len(Events) : j < k /\ Events[j] = e /\ Events[k] = f
Removed == (DOMAIN pre.oq) \ (DOMAIN session.oq)
Added == (DOMAIN session.oq) \ (DOMAIN pre.oq)
KeptAsWas(ids) == \A i \in ids : i \in DOMAIN session.oq /\ session.oq[i] = pre.oq[i]
LoginRedirected == last.op = "login" /\ last.resp.status = 302
Destination == IF last.inp.next = None THEN LOGIN_REDIRECT_URL ELSE last.inp.next
LocalLogout == last.op = "logout_service" /\ Called("auth_logout")

\* C1: a Login that returns a redirect leaves the outstanding-query map as
\* it found it plus exactly one entry, under the request id the engine
\* issued in this request and holding the resolved destination (`next`, or
\* LOGIN_REDIRECT_URL without `next`); subjectID, the identity cache and
\* the protocol-state blob are as before.
C1_LoginAddsOneQuery ==
    LoginRedirected =>
        /\ Added = {issued}
        /\ Removed = {}
        /\ KeptAsWas(DOMAIN pre.oq)
        /\ session.oq[issued] = Destination
        /\ session.subjectID = pre.subjectID
        /\ session.identityCache = pre.identityCache
        /\ session.protocolState = pre.protocolState

\* C1 witness: a redirecting Login with an explicit `next` on a session
\* that already holds an outstanding query.
C1_Witness ==
    /\ LoginRedirected
    /\ last.inp.next # None
    /\ pre.oq # EmptyOq

\* C2 as claimed: an outstanding query is removed only by an
\* AssertionConsumer call that ends in the redirect of a successful
\* authentication and whose response carries the entry's id (a local logout
\* in LogoutResponder, which the claim leaves aside, is allowed too).
C2_RemovedOnlyByAuthenticatedAcs ==
    \A i \in Removed :
        \/ /\ last.op = "acs"
           /\ last.resp.outcome = "redirect"
           /\ last.inp.session_id = i
        \/ LocalLogout

\* C2 amended: an outstanding query is removed only by an AssertionConsumer
\* call whose engine-validated response carries the entry's id, whether the
\* backend then resolves a user or not; or together with the whole session
\* when it is flushed: by a local logout in LogoutResponder, or by an
\* AssertionConsumer login of a user other than the one logged in.  Login,
\* LogoutInitiator, LogoutResponder without local logout and an
\* AssertionConsumer call ending in 400 remove nothing.
C2_RemovedOnlyByValidatedAcs ==
    \A i \in Removed :
        \/ /\ last.op = "acs"
           /\ last.inp.valid
           /\ last.resp.outcome \in {"redirect", "auth_failed"}
           /\ last.inp.session_id = i
        \/ /\ last.op = "acs"
           /\ last.resp.outcome = "redirect"
           /\ pre.user \notin {Anon, last.inp.user}
        \/ LocalLogout

\* C2 witness: an AssertionConsumer call that ends in the authentication
\* failure response has removed the entry of its response's id.
C2_Witness ==
    /\ last.op = "acs"
    /\ last.resp.outcome = "auth_failed"
    /\ last.inp.session_id \in Removed

\* C3: a Login redirect is returned only after the entry of the issued id
\* was written in the same request, and a Login that does not redirect
\* (already-authenticated notice, discovery page, configuration error,
\* fatal failure) leaves the outstanding-query map as it was.
C3_LoginWritesBeforeRedirect ==
    last.op = "login" =>
        /\ last.resp.status = 302 =>
              /\ Before("oq_set", "redirect")
              /\ issued \in DOMAIN session.oq
              /\ issued \notin DOMAIN pre.oq
              /\ session.oq[issued] = Destination
        /\ last.resp.status # 302 =>
              /\ last.resp.outcome \in
                    {"already_authenticated", "wayf", "configuration_error",
                     "fatal"}
              /\ session.oq = pre.oq

\* C3 witness: a Login redirect, answered after its write.
C3_Witness ==
    /\ LoginRedirected
    /\ Before("oq_set", "redirect")
    /\ last.inp.next = None

\* C4 as claimed: with more than one IdP and no `idp` parameter Login
\* answers with the discovery page, whatever the caller's session.
C4_WayfWhateverTheSession ==
    (last.op = "login" /\ last.inp.idps > 1 /\ last.inp.idp = None) =>
        /\ last.resp.outcome = "wayf"
        /\ last.resp.status # 302
        /\ session.oq = pre.oq

\* C4 amended: with more than one IdP and no `idp` parameter, Login answers
\* an anonymous caller with the discovery page and a logged-in caller with
\* the already-authenticated notice; either way it is a 200, the engine is
\* not called, no redirect is issued and no outstanding query is written.
C4_WayfForAnonymous ==
    (last.op = "login" /\ last.inp.idps > 1 /\ last.inp.idp = None) =>
        /\ pre.user = Anon => last.resp.outcome = "wayf"
        /\ pre.user # Anon => last.resp.outcome = "already_authenticated"
        /\ last.resp.status = 200
        /\ last.resp.location = None
        /\ Events = <<>>
        /\ session = pre

\* C4 witness: an anonymous caller with an outstanding query gets the
\* discovery page.
C4_Witness ==
    /\ last.op = "login"
    /\ last.inp.idps > 1
    /\ last.inp.idp = None
    /\ pre.user = Anon
    /\ pre.oq # EmptyOq
    /\ last.resp.outcome = "wayf"

\* C5: an AssertionConsumer POST without SAMLResponse is answered 400, the
\* engine is not called, and the session (subjectID, identity cache,
\* outstanding queries, protocol state) is left exactly as it was.
C5_MissingPayloadIs400 ==
    (last.op = "acs" /\ ~last.inp.has_response) =>
        /\ last.resp.status = 400
        /\ Events = <<>>
        /\ session = pre

\* C5 witness: such a POST on a logged-in session with an outstanding query.
C5_Witness ==
    /\ last.op = "acs"
    /\ ~last.inp.has_response
    /\ pre.subjectID # None
    /\ pre.oq # EmptyOq

\* C6: when the engine returns no response object for the posted payload,
\* AssertionConsumer answers 400 without a redirect, and the outstanding
\* queries, subjectID and the logged-in user are as before.
C6_EngineRejectionIs400 ==
    (last.op = "acs" /\ last.inp.has_response /\ ~last.inp.valid) =>
        /\ last.resp.status = 400
        /\ last.resp.location = None
        /\ session.oq = pre.oq
        /\ session.subjectID = pre.subjectID
        /\ session.user = pre.user

\* C6 witness: the engine rejects a payload posted on a logged-in session
\* that holds an outstanding query.
C6_Witness ==
    /\ last.op = "acs"
    /\ last.inp.has_response
    /\ ~last.inp.valid
    /\ Called("response")
    /\ pre.subjectID # None
    /\ pre.oq # EmptyOq

\* C7: when the engine validates the response and the backend resolves no
\* user, AssertionConsumer answers 200 without a redirect, logs nobody in,
\* keeps subjectID as it was (present or absent) and sends no
\* post_authenticated signal.
C7_NoUserNoLogin ==
    (last.op = "acs" /\ last.inp.valid /\ last.inp.user = None) =>
        /\ last.resp.status = 200
        /\ last.resp.outcome = "auth_failed"
        /\ last.resp.location = None
        /\ session.user = pre.user
        /\ session.subjectID = pre.subjectID
        /\ ~Called("auth_login")
        /\ ~Called("set_subject_id")
        /\ ~Called("post_authenticated")

\* C7 witness: the backend resolves nobody for a validated response that
\* names another subject than the one the session holds.
C7_Witness ==
    /\ last.op = "acs"
    /\ last.inp.valid
    /\ last.inp.user = None
    /\ pre.subjectID # None
    /\ pre.subjectID # last.inp.name_id

\* The responses that report an error to the caller.
ErrorOutcomes ==
    {"bad_request", "auth_failed", "configuration_error", "logout_error",
     "not_found"}

\* C8 as claimed: after a request that ends in an error response, subjectID
\* and the outstanding queries are what they were before it.
C8_ErrorsChangeNothing ==
    last.resp.outcome \in ErrorOutcomes =>
        /\ session.subjectID = pre.subjectID
        /\ session.oq = pre.oq

\* C8 amended: after a request that ends in an error response (400,
\* authentication failure, configuration error, logout failure, not found)
\* subjectID is what it was before it, and so are the outstanding queries,
\* except that an AssertionConsumer call ending in the authentication
\* failure has removed the entry of its response's id, and only that one.
C8_ErrorsKeepSubject ==
    last.resp.outcome \in ErrorOutcomes =>
        /\ session.subjectID = pre.subjectID
        /\ last.resp.outcome # "auth_failed" => session.oq = pre.oq
        /\ last.resp.outcome = "auth_failed" =>
              /\ DOMAIN session.oq = (DOMAIN pre.oq) \ {last.inp.session_id}
              /\ KeptAsWas(DOMAIN session.oq)

\* C8 witness: an authentication failure on a session with two outstanding
\* queries removes the one of its response and keeps the other.
C8_Witness ==
    /\ last.op = "acs"
    /\ last.resp.outcome = "auth_failed"
    /\ Removed = {last.inp.session_id}
    /\ session.oq # EmptyOq
    /\ pre.subjectID # None

\* C9: when the engine validates the response and the backend returns a
\* user, AssertionConsumer logs that user in, sets subjectID to the
\* response's name id (whatever it was before), and redirects to RelayState
\* as posted, or to "/" without RelayState; subjectID is set before the
\* post_authenticated signal is sent, and a subscriber that raises changes
\* nothing of this.
C9_AuthenticatedRedirectsToRelay ==
    (last.op = "acs" /\ last.inp.valid /\ last.inp.user # None) =>
        /\ last.resp.outcome = "redirect"
        /\ last.resp.status = 302
        /\ last.resp.location =
              (IF last.inp.relay = None THEN "/" ELSE last.inp.relay)
        /\ session.user = last.inp.user
        /\ session.subjectID = last.inp.name_id
        /\ Before("auth_login", "set_subject_id")
        /\ Before("set_subject_id", "post_authenticated")
        /\ Before("post_authenticated", "redirect")

\* C9 witness: a successful authentication whose subscriber raises, on a
\* session that held another subject id, with no RelayState posted.
C9_Witness ==
    /\ last.op = "acs"
    /\ last.inp.valid
    /\ last.inp.user # None
    /\ last.inp.subscriber_fails
    /\ last.inp.relay = None
    /\ pre.subjectID \notin {None, last.inp.name_id}
    /\ session.subjectID = last.inp.name_id

\* C10: subjectID goes from absent to present only in an AssertionConsumer
\* call that ends in a successful authentication, and from present to
\* absent only in a LogoutResponder call in which the engine reported the
\* logout as successful ('200 Ok' in answer to SAMLResponse, or the success
\* flag in answer to SAMLRequest); Login and LogoutInitiator leave it alone.
C10_SubjectTransitions ==
    /\ (pre.subjectID = None /\ session.subjectID # None) =>
          /\ last.op = "acs"
          /\ last.resp.outcome = "redirect"
    /\ (pre.subjectID # None /\ session.subjectID = None) =>
          /\ last.op = "logout_service"
          /\ \/ last.inp.has_response /\ last.inp.status = "200 Ok"
             \/ ~last.inp.has_response /\ last.inp.has_request
                    /\ last.inp.success
    /\ last.op \in {"login", "logout"} => session.subjectID = pre.subjectID

\* C10 witness: an IdP-initiated logout that succeeded has cleared the
\* subject id of a logged-in session.
C10_Witness ==
    /\ last.op = "logout_service"
    /\ ~last.inp.has_response
    /\ last.inp.success
    /\ pre.subjectID # None
    /\ session.subjectID = None

\* The LogoutResponder request just handled, by mode.
ModeA == last.op = "logout_service" /\ last.inp.has_response
ModeB ==
    last.op = "logout_service" /\ ~last.inp.has_response
        /\ last.inp.has_request
CountOf(e) == Cardinality({k \in 1..Len(Events) : Events[k] = e})
LoggedOut == session.subjectID = None /\ session.user = Anon
LoginKept ==
    session.subjectID = pre.subjectID /\ session.user = pre.user

\* C11 as claimed: with SAMLResponse present the protocol state is synced
\* whatever the engine says; on '200 Ok' the local session is cleared and
\* the answer is a redirect to the post-logout page; on anything else the
\* answer is the logout-failure response, without redirect, and subjectID
\* and the logged-in user are kept.
C11_ModeARedirectsOnSuccess ==
    ModeA =>
        /\ Called("state_sync")
        /\ last.inp.status = "200 Ok" =>
              /\ LoggedOut
              /\ last.resp.status = 302
        /\ last.inp.status # "200 Ok" =>
              /\ last.resp.outcome = "logout_error"
              /\ last.resp.location = None
              /\ LoginKept

\* C11 amended: with SAMLResponse present, state.sync() runs after the
\* engine's call whatever the engine says.  On '200 Ok' the local session
\* is cleared (subjectID absent) and the answer is a redirect to next_page
\* when the view was given one, and the 200 logged-out page without
\* redirect when it was not.  On anything else the answer is the 200
\* logout-failure response without redirect, subjectID and the logged-in
\* user are kept and the session holds the blob the engine reported.
C11_ModeARedirectsToNextPage ==
    ModeA =>
        /\ Before("logout_response", "state_sync")
        /\ last.inp.status = "200 Ok" =>
              /\ LoggedOut
              /\ last.inp.next_page # None =>
                    /\ last.resp.status = 302
                    /\ last.resp.location = last.inp.next_page
              /\ last.inp.next_page = None =>
                    /\ last.resp.status = 200
                    /\ last.resp.outcome = "logged_out"
                    /\ last.resp.location = None
        /\ last.inp.status # "200 Ok" =>
              /\ last.resp.outcome = "logout_error"
              /\ last.resp.status = 200
              /\ last.resp.location = None
              /\ LoginKept
              /\ session.protocolState = last.inp.blob

\* C11 witness: the engine reports '200 Ok' on a logged-in session and the
\* view has no next_page: the session is cleared, the answer is a 200.
C11_Witness ==
    /\ ModeA
    /\ last.inp.status = "200 Ok"
    /\ last.inp.next_page = None
    /\ pre.subjectID # None
    /\ session.subjectID = None
    /\ last.resp.status = 200

C13_NeitherParameterIs404 ==
    (last.op = "logout_service" /\ ~last.inp.has_response
        /\ ~last.inp.has_request) =>
        /\ last.resp.outcome = "not_found"
        /\ last.resp.status = 404
        /\ last.resp.location = None
        /\ Events = <<>>
        /\ session = pre

\* C13 witness: such a request on a logged-in session that holds an
\* outstanding query and a protocol state.
C13_Witness ==
    /\ last.op = "logout_service"
    /\ ~last.inp.has_response
    /\ ~last.inp.has_request
    /\ pre.subjectID # None
    /\ pre.oq # EmptyOq
    /\ pre.protocolState # EmptyBlob
    /\ last.resp.status = 404

\* C14: LogoutInitiator on a logged-in session syncs the blob the engine
\* reported before it returns the redirect, and redirects to the Location
\* the engine returned; without a Location among the engine's headers the
\* request fails without redirect.  Whatever the outcome, LogoutInitiator
\* leaves subjectID and the logged-in user as they were.
C14_LogoutSyncsBeforeRedirect ==
    last.op = "logout" =>
        /\ LoginKept
        /\ (pre.user # Anon /\ last.inp.has_location) =>
              /\ last.resp.status = 302
              /\ last.resp.location = IdpSloLocation
              /\ Before("global_logout", "state_sync")
              /\ Before("state_sync", "redirect")
              /\ session.protocolState = last.inp.blob
        /\ (pre.user # Anon /\ ~last.inp.has_location) =>
              /\ last.resp.outcome = "fatal"
              /\ last.resp.location = None
              /\ ~Called("redirect")

\* C14 witness: a logout redirect that changed the stored protocol state.
C14_Witness ==
    /\ last.op = "logout"
    /\ pre.user # Anon
    /\ last.resp.status = 302
    /\ pre.protocolState # EmptyBlob
    /\ session.protocolState # pre.protocolState

\* C16 as claimed: every LogoutResponder request is answered 302, 200 or
\* 404, a SAMLRequest on a session without subject id included.
C16_LogoutResponderOutcomes ==
    last.op = "logout_service" => last.resp.status \in {302, 200, 404}

\* C19: the session holds a logged-in user exactly when it holds a subject
\* id; no request sets or clears one without the other, and LogoutInitiator
\* on a logged-in session finds a subject id and reaches the engine.
C19_UserIffSubject ==
    /\ (session.user # Anon) <=> (session.subjectID # None)
    /\ (pre.user # Anon) <=> (pre.subjectID # None)
    /\ (last.op = "logout" /\ pre.user # Anon) => Called("global_logout")

\* C19 witness: LogoutInitiator on a logged-in session reads its subject id
\* and calls the engine.
C19_Witness ==
    /\ last.op = "logout"
    /\ pre.user # Anon
    /\ pre.subjectID # None
    /\ Called("global_logout")

\* C20 as claimed: a request with SAMLResponse is handled as a logout
\* response even when SAMLRequest is there too (client.logout_request is
\* not called), a request with SAMLRequest only as a logout request, and
\* each such request makes exactly one engine call and one state.sync().
C20_ModeByParameters ==
    last.op = "logout_service" =>
        /\ ModeA =>
              /\ CountOf("logout_response") = 1
              /\ CountOf("logout_request") = 0
              /\ CountOf("state_sync") = 1
        /\ ModeB =>
              /\ CountOf("logout_request") = 1
              /\ CountOf("logout_response") = 0
              /\ CountOf("state_sync") = 1

\* What the backend was given for an argument: the argument's value when
\* the argument was supplied (a callable's value being what it returned,
\* after exactly one call), else the setting's, else the default.
Supplied(arg, setting, default) ==
    IF arg.kind # "none" THEN arg
    ELSE IF setting.kind # "none" THEN setting
    ELSE Static(default)
PassedAs(passed, v) ==
    /\ passed.value = v.value
    /\ passed.calls = (IF v.kind = "callable" THEN 1 ELSE 0)

\* C18 as claimed: the attribute mapping and the create-unknown-user flag
\* that reach auth.authenticate() are the view's arguments whenever they
\* were supplied, a static False or an empty mapping included, a callable
\* being called once; the settings (default: create unknown users, uid ->
\* username) are used only for an argument that was not supplied.
C18_SuppliedValuesArePassed ==
    call.passed # <<>> =>
        /\ PassedAs(call.passed[1].attribute_mapping,
                    Supplied(call.given.attribute_mapping,
                             call.given.SAML_ATTRIBUTE_MAPPING,
                             DefaultMapping))
        /\ PassedAs(call.passed[1].create_unknown_user,
                    Supplied(call.given.create_unknown_user,
                             call.given.SAML_CREATE_UNKNOWN_USER, TRUE))

\* C15 as claimed: a request id is consumed at most once.  With the engine
\* free to accept any posted response, no request id Login issued leads to
\* more than one successful authentication, and an AssertionConsumer call
\* whose validated response carries an id that is not among the outstanding
\* queries at that time does not set subjectID.
C15_ConsumedAtMostOnce ==
    /\ \A i \in 1..MaxIds : consumed[i] <= 1
    /\ (last.op = "acs" /\ last.inp.valid
            /\ last.inp.session_id \notin DOMAIN pre.oq) =>
          /\ ~Called("set_subject_id")
          /\ session.subjectID = pre.subjectID

\* The two tabs, as the claims see them.
OtherTab(t) == CHOOSE u \in Tabs : u # t
TabDone(t) == tabs[t].pc = "done"
LoginTab(t) == TabDone(t) /\ tabs[t].op = "login" /\ tabs[t].sid # 0
TabDestination(t) ==
    IF tabs[t].inp.next = None THEN LOGIN_REDIRECT_URL ELSE tabs[t].inp.next
EntryKept(t) ==
    /\ tabs[t].sid \in DOMAIN session.oq
    /\ session.oq[tabs[t].sid] = TabDestination(t)
\* the two requests are about distinct request ids: the other tab's request
\* is a login, or a response that does not answer t's own request id
DistinctIds(t, u) ==
    ~(tabs[u].op = "acs" /\ tabs[u].inp.session_id = tabs[t].sid)
\* the tab wrote the session: it saved or deleted an outstanding query
TabWrote(u) ==
    \E k \in 1..Len(tabs[u].resp.events) :
        tabs[u].resp.events[k] \in {"oq_set", "oq_delete"}
\* the tab read the session before the other tab wrote its copy back, then
\* wrote its own copy back over it
WroteStaleCopy(u) == TabDone(u) /\ tabs[u].stale /\ TabWrote(u)

\* C17 as claimed: when two requests on one session overlap, with distinct
\* request ids, then after both completed the entry of every Login that
\* redirected, and was not consumed by its own AssertionConsumer call, is
\* still there with its destination.
C17_NoEntryLost ==
    (\A t \in Tabs : TabDone(t)) =>
        \A t \in Tabs :
            (LoginTab(t) /\ DistinctIds(t, OtherTab(t))) => EntryKept(t)

\* C17 amended: the session is written back whole, last write wins.  When
\* two requests about distinct request ids overlap on one session, then once
\* a Login that redirected has completed, its entry is in the stored session
\* with its destination unless the other request read the session before the
\* Login wrote it back, modified its copy, and has written that copy back
\* after the Login; in that case the entry is gone.
C17_EntryLostToStaleWriteOnly ==
    \A t \in Tabs :
        (LoginTab(t) /\ DistinctIds(t, OtherTab(t))) =>
            (EntryKept(t) <=> ~WroteStaleCopy(OtherTab(t)))

\* C17 witness: two Logins overlapped; both redirected and completed, and
\* the entry of the one that wrote back first is gone.
C17_Witness ==
    /\ \A t \in Tabs : LoginTab(t)
    /\ \E t \in Tabs :
          /\ ~EntryKept(t)
          /\ WroteStaleCopy(OtherTab(t))
          /\ EntryKept(OtherTab(t))

=============================================================================
